---- MODULE Spec2Model ----
(***************************************************************************)
(* Google Photos deletion script: the polling primitive waitUntil, the     *)
(* delete-confirm sequence executeDeletion and the batch loop              *)
(* runPhotoDeleter, in its two variants:                                   *)
(*   "stall"  src/unnamed/part_002   (stall detection, delta accounting)   *)
(*   "plain"  src/delete-photos.js   (no stall detection)                  *)
(*                                                                         *)
(* One action is one macrotask of the script: a timer callback together    *)
(* with the whole continuation of the async function up to the next await  *)
(* on a timer.  The page (container, checkboxes, buttons, dialog) is the   *)
(* environment; it changes between the script's timer callbacks.           *)
(* Timers are not exact: a callback of setInterval(f, 250) runs when the   *)
(* event loop gets to it, about 250 ms after the one before it or any      *)
(* time later.  What Date.now() - startTime reads at a callback is an      *)
(* input of the callback; the script keeps startTime and nothing else of   *)
(* the time, and tells a reading within the timeout from one past it.      *)
(* Strings are sequences of words; String.prototype.includes is the        *)
(* contiguous-subsequence test on words.                                   *)
(***************************************************************************)
EXTENDS Integers, Sequences, FiniteSets, TLC

(* ------------------------------ bounds -------------------------------- *)

\* Items held by the simulated UI (all batches together).
MaxItems == 2

\* The timeouts of the polling primitive alone whose time is followed to the
\* ms are 0, TimeoutStep, ..., MaxTimeoutSteps * TimeoutStep milliseconds;
\* twice as many are tried where it is not followed.
TimeoutStep == 100
MaxTimeoutSteps == 5

\* Checkbox activations that throw during one run.
MaxThrows == 1

\* The variant without stall detection never stops on a page that deselects
\* the items instead of removing them, nor does the other one when each
\* verification times out on a blocked event loop; the total is followed up
\* to MaxTotal.
MaxTotal == 4

\* Times the script is run on the same page, one run after the other.
MaxRuns == 2

\* Milliseconds a timer callback comes before it is due, at most, and the
\* longest it is followed after it was due (the event loop is busy or
\* blocked for that long).
Early == 1
MaxDelay == 1000

(* ------------------------- program constants -------------------------- *)

actionDelay == 1000
timeout == 30000
stallLimit == 5
PollInterval == 250
SelectDelay == 500
VerifyTimeout == 5000

Variants == {"stall", "plain"}
Terminal == {"done", "halted"}

\* How a run of the script ends: in a terminal state of the loop, or with an
\* exception that leaves runPhotoDeleter ("SCRIPT ENCOUNTERED A CRITICAL
\* ERROR").
Ended == Terminal \cup {"crashed"}

(* ------------------------------ strings ------------------------------- *)

DescContainer == <<"main", "photo", "container">>
DescCheckbox == <<"any", "selectable", "photo">>
DescDelete == <<"main", "Move", "to", "trash", "button">>
DescConfirm == <<"confirmation", "Move", "to", "trash", "button">>
NoItemsNeedle == <<"any", "selectable", "photo">>

\* s.includes(needle)
Includes(s, needle) ==
  \E i \in 0..(Len(s) - Len(needle)) :
    \A j \in 1..Len(needle) : s[i + j] = needle[j]

\* The digits JavaScript prints after the decimal point of ms / 1000.
FractionWords(ms) ==
  LET f == ms % 1000
      d1 == ToString(f \div 100)
      d2 == ToString((f \div 10) % 10)
      d3 == ToString(f % 10)
  IN  IF f = 0 THEN <<>>
      ELSE IF f % 100 = 0 THEN <<".", d1>>
      ELSE IF f % 10 = 0 THEN <<".", d1, d2>>
      ELSE <<".", d1, d2, d3>>

\* `Timeout: Could not find ${description} after ${timeout / 1000} seconds.`
TimeoutMessage(description, ms) ==
  <<"Timeout:", "Could", "not", "find">> \o description \o <<"after">>
    \o <<ToString(ms \div 1000)>> \o FractionWords(ms) \o <<"seconds.">>

StallMessage ==
  <<"Stall", "Detected.", "Google", "is", "likely", "rate-limiting", "you.",
    "The", "script", "will", "now", "stop.">>

\* Messages of an Error thrown by a control's click().
ClickMessage == <<"click", "failed">>
ClickNoItemsMessage ==
  <<"Could", "not", "find", "any", "selectable", "photo", "element">>

(* ---------------------------- thrown values --------------------------- *)

\* What a throw statement or a click() raises: an Error with its message,
\* or a value without a message property (null, a string).
Thrown(kind, message) == [kind |-> kind, message |-> message]
ErrorValue(message) == Thrown("error", message)
ClickThrows ==
  {ErrorValue(ClickMessage), ErrorValue(ClickNoItemsMessage),
   Thrown("null", <<>>), Thrown("string", <<>>)}

\* error.message.includes(...) can be evaluated: error is not null and its
\* message is a string.  Otherwise the expression throws a TypeError.
HasMessage(e) == e.kind = "error"

(* --------------------------- JavaScript values ------------------------ *)

\* A probe result: kind, and n = the boolean (0/1), the number, the length
\* of the string or list, or the nodeType of the element.
Val(kind, n) == [kind |-> kind, n |-> n]
Null == Val("null", 0)
Undefined == Val("undefined", 0)
Element == Val("element", 1)
NodeList(n) == Val("list", n)

Truthy(v) ==
  CASE v.kind \in {"null", "undefined"} -> FALSE
    [] v.kind \in {"bool", "number", "string"} -> v.n # 0
    [] OTHER -> TRUE

\* result.length > 0 (undefined > 0 is false)
LengthPositive(v) == v.kind \in {"string", "list"} /\ v.n > 0

\* result.nodeType, as a condition
HasNodeType(v) == v.kind = "element" /\ v.n # 0

\* result && (result.length > 0 || result.nodeType)
Satisfied(v) == Truthy(v) /\ (LengthPositive(v) \/ HasNodeType(v))

(* ------------------------------ waitUntil ----------------------------- *)

NoValue == Val("none", 0)

\* waitUntil(condition, description, timeout): startTime = Date.now(), the
\* interval timer is set, the promise is pending.
StartWait(description, ms) ==
  [description |-> description, timeout |-> ms, overdue |-> FALSE,
   status |-> "pending", timer |-> TRUE, result |-> NoValue,
   error |-> <<>>, probes |-> 0]

IdleWait ==
  [description |-> <<>>, timeout |-> 0, overdue |-> FALSE,
   status |-> "idle", timer |-> FALSE, result |-> NoValue,
   error |-> <<>>, probes |-> 0]

\* Date.now() - startTime > timeout
TimedOutEarly(elapsed, ms) == elapsed + PollInterval > ms
TimedOutLate(elapsed, ms) == elapsed > ms + PollInterval
TimedOut(elapsed, ms) == elapsed > ms

\* The same without clearInterval when the condition is met.
PollStepNoClear(w, probeResult, now) ==
  LET v == [w EXCEPT !.overdue = now > w.timeout] IN
  IF TimedOut(now, w.timeout)
  THEN [v EXCEPT !.status = "rejected", !.timer = FALSE,
                 !.error = TimeoutMessage(w.description, w.timeout)]
  ELSE IF Satisfied(probeResult)
  THEN [v EXCEPT !.status = "resolved",
                 !.result = probeResult, !.probes = @ + 1]
  ELSE [v EXCEPT !.probes = @ + 1]

\* One callback of the interval timer: now is what Date.now() - startTime
\* reads in it, probeResult is what condition() returns when it is called.
\* The wait keeps no reading; overdue records, for the properties, whether
\* the reading of its last callback was past the timeout.
PollStep(w, probeResult, now) ==
  LET v == [w EXCEPT !.overdue = now > w.timeout] IN
  IF TimedOut(now, w.timeout)
  THEN [v EXCEPT !.status = "rejected", !.timer = FALSE,
                 !.error = TimeoutMessage(w.description, w.timeout)]
  ELSE IF Satisfied(probeResult)
  THEN [v EXCEPT !.status = "resolved", !.timer = FALSE,
                 !.result = probeResult, !.probes = @ + 1]
  ELSE [v EXCEPT !.probes = @ + 1]

\* The interval timers that are set after a callback that left the wait as
\* w and the script at the wait next: the callback's own timer unless it
\* called clearInterval, and the timer of a waitUntil call just made.
TimersAfter(n, w, next) ==
  n - (IF w.timer THEN 0 ELSE 1)
    + (IF next.timer /\ next.status = "pending" /\ next.probes = 0 THEN 1 ELSE 0)

(* ------------------------------- state -------------------------------- *)

VARIABLES
  variant,           \* which script runs: "stall" or "plain"
  pc,                \* where runPhotoDeleter is suspended, or how it ended
  wait,              \* the waitUntil call in progress (the last one, once settled)
  lastProbe,         \* what condition() returned on the last poll
  photoCountBefore,  \* checkBoxes.length of the current iteration
  photoCountAfter,   \* let photoCountAfter: what the last verification counted
  totalDeleted,
  stallCounter,
  lastError,         \* message of the error the outer catch received
  thrownKind,        \* kind of the value the outer catch received, or "none"
  reported,          \* the total of the "Script finished" log, -1 before it
  container,         \* the page shows div[jsname='fPosBb']
  pending,           \* sizes of the batches not yet visible
  unchecked,         \* visible items matching .ckGgle[aria-checked=false]
  checked,           \* visible items that are selected
  removed,           \* items the page has moved to trash
  deleteBtn,         \* the page shows button[aria-label="Move to trash"]
  dialog,            \* confirmation dialog: "none", "requested", "open"
  selectLog,         \* the Selecting step just made: found, attempted, caught
  seqStreak,         \* delete-confirm sequences started since the last decrease
  clickLog,          \* the controls whose click() this iteration has called
  timers,            \* interval timers that are set (setInterval) and not cleared
  page,              \* "reliable": successive batches, no click throws, every
                     \* confirmation removes the selection; "any": no such promise
  clock,             \* what Date.now() - startTime read at the last callback of
                     \* the wait, where the time is followed; else NotFollowed
  throwsLeft,        \* checkbox activations that may still throw
  run,               \* which invocation of the script this is: 1, 2, ...
  previous           \* whether an invocation before this one ended with
                     \* totalDeleted > 0 and stallCounter = stallLimit

progVars == <<variant, pc, wait, lastProbe, photoCountBefore, photoCountAfter, totalDeleted,
              stallCounter, lastError, thrownKind, reported>>
uiVars == <<container, pending, unchecked, checked, removed, deleteBtn, dialog>>
ghostVars == <<selectLog, seqStreak, clickLog, timers>>
envVars == <<page, clock, throwsLeft, run, previous>>
vars == <<progVars, uiVars, ghostVars, envVars>>

\* The time of a wait is not followed: only whether a reading is within the
\* timeout or past it.
NotFollowed == -1

\* The earliest reading of Date.now() - startTime at the next callback of w
\* (every callback so far came as early as a callback comes), and the
\* earliest that is past the timeout.
EarliestReading(w) == (w.probes + 1) * (PollInterval - Early)
EarliestOverdue(w) ==
  IF EarliestReading(w) > w.timeout THEN EarliestReading(w) ELSE w.timeout + 1

\* What Date.now() - startTime may read at the next callback of the wait w.
\* The callback runs when the event loop gets to it: PollInterval ms after
\* the one before it, up to Early ms before that, or any time later.  Where
\* the time is followed, the reading is the one of the callback before plus
\* that, to the ms, up to MaxDelay ms late.  Where it is not, the reading is
\* one of each kind the script tells apart: the earliest one (within the
\* timeout as long as that many callbacks fit in it) and one past the
\* timeout (the event loop was busy for as long as it takes).
Readings(w) ==
  IF clock = NotFollowed
  THEN {EarliestReading(w), EarliestOverdue(w)}
  ELSE {clock + PollInterval + d : d \in (0 - Early)..MaxDelay}

RECURSIVE SumSeq(_)
SumSeq(s) == IF s = <<>> THEN 0 ELSE Head(s) + SumSeq(Tail(s))

\* The ways MaxItems or fewer items are split into successive batches.
BatchPlans ==
  {s \in UNION {[1..k -> 1..MaxItems] : k \in 0..MaxItems} : SumSeq(s) <= MaxItems}

\* Items the simulated UI holds.
ItemCount == removed + unchecked + checked + SumSeq(pending)

NoSelectLog == [found |-> 0, attempted |-> 0, caught |-> 0, escaped |-> FALSE]

\* box.click() called n times; deleteBtn.click(), confirmBtn.click().
ClickBoxes(log, n) == log \o [i \in 1..n |-> "box"]
ClickControl(log, control) == Append(log, control)

(* ------------------------------- probes ------------------------------- *)

\* document.querySelector(CONFIG.selectors.photoContainer)
ProbeContainer == IF container THEN Element ELSE Null

\* document.querySelectorAll(CONFIG.selectors.checkbox)
ProbeCheckbox == NodeList(unchecked)

\* document.querySelector(CONFIG.selectors.deleteButton)
ProbeDelete == IF deleteBtn THEN Element ELSE Null

\* Array.from(document.querySelectorAll("button")).find(b => b.textContent === ...)
ProbeConfirm == IF dialog = "open" THEN Element ELSE Undefined

(* ----------------------------- outer catch ---------------------------- *)

\* error.message.includes("any selectable photo")
IsNoItemsNever(message) == FALSE
IsNoItemsError(message) == Includes(message, NoItemsNeedle)

\* part_002: "Mission accomplished" or "[SCRIPT HALTED]"
CatchStallAlwaysDone(message) == "done"
CatchStallRetry(message) == IF IsNoItemsError(message) THEN "done" ELSE "waitContainer"
CatchStall(message) == IF IsNoItemsError(message) THEN "done" ELSE "halted"

\* delete-photos.js: every error logs "Mission accomplished"
CatchPlain(message) == "done"

\* catch (error) { ... break; } and the "Script finished" log after the loop.
\* part_002 reads error.message; when that throws, the TypeError leaves the
\* catch block and runPhotoDeleter, and nothing more is logged by it.
Catch(w, e) ==
  /\ pc' = (IF variant = "plain" THEN CatchPlain(e.message)
            ELSE IF HasMessage(e) THEN CatchStall(e.message)
            ELSE "crashed")
  /\ lastError' = e.message
  /\ thrownKind' = e.kind
  /\ reported' = (IF variant = "stall" /\ ~HasMessage(e) THEN reported
                  ELSE totalDeleted)
  /\ wait' = w

(* ------------------------------ Selecting ----------------------------- *)

\* for (const box of checkBoxes) { try { box.click(); } catch (e) { warn } }
\* throws[i] says whether the i-th click() throws.
RECURSIVE ClickAllAbort(_, _)
ClickAllAbort(throws, acc) ==
  IF throws = <<>> THEN acc
  ELSE IF Head(throws)
       THEN [acc EXCEPT !.attempted = @ + 1, !.escaped = TRUE]
       ELSE ClickAllAbort(Tail(throws), [acc EXCEPT !.attempted = @ + 1])

RECURSIVE ClickAll(_, _)
ClickAll(throws, acc) ==
  IF throws = <<>> THEN acc
  ELSE ClickAll(Tail(throws),
                [acc EXCEPT !.attempted = @ + 1,
                            !.caught = @ + (IF Head(throws) THEN 1 ELSE 0)])

\* delete-photos.js: totalDeleted += checkBoxes.length
CountBatch(total, found) == total + 1
CountFound(total, found) == total + found

(* ------------------------- Verifying (part_002) ----------------------- *)

\* photoCountAfter >= photoCountBefore
NotDecreasedStrict(after, before) == after > before
NotDecreasedNever(after, before) == FALSE
NotDecreased(after, before) == after >= before

\* const newlyDeleted = photoCountBefore - photoCountAfter
NewlyDeletedWhole(before, after) == before
NewlyDeleted(before, after) == before - after

\* stallCounter >= CONFIG.stallLimit
StallReachedLate(counter) == counter > stallLimit
StallReached(counter) == counter >= stallLimit

(* ------------------------------ run state ----------------------------- *)

Counters(total, stalls) == [totalDeleted |-> total, stallCounter |-> stalls]
\* Counters a run ends with that a later run would show if it inherited them.
Telling(c) == c.totalDeleted > 0 /\ c.stallCounter = stallLimit

\* let totalDeleted = 0; let stallCounter = 0; of a call of runPhotoDeleter
\* made when an earlier call ended with the counters earlier.
CountersKept(earlier) == earlier
CountersAtStart(earlier) == Counters(0, 0)

(* ------------------------------ the loop ------------------------------ *)

Running == pc \notin Ended /\ pc # "primitive"

\* The next iteration of while (true): the first await of the try block.
NextIteration ==
  /\ pc' = "waitContainer"
  /\ wait' = StartWait(DescContainer, timeout)
  /\ photoCountBefore' = 0
  /\ selectLog' = NoSelectLog
  /\ clickLog' = <<>>

\* Poll of: await waitUntil(() => querySelector(photoContainer), ...)
TickContainer ==
  /\ pc = "waitContainer"
  /\ UNCHANGED photoCountAfter
  /\ \E now \in Readings(wait) :
     LET w == PollStep(wait, ProbeContainer, now) IN
     /\ CASE w.status = "pending" ->
            /\ wait' = w
            /\ UNCHANGED <<pc, lastError, thrownKind, reported>>
       [] w.status = "resolved" ->
            /\ wait' = StartWait(DescCheckbox, timeout)
            /\ pc' = "waitCheckbox"
            /\ UNCHANGED <<lastError, thrownKind, reported>>
       [] w.status = "rejected" -> Catch(w, ErrorValue(w.error))
     /\ timers' = TimersAfter(timers, w, wait')
  /\ UNCHANGED <<variant, lastProbe, photoCountBefore, totalDeleted, stallCounter>>
  /\ UNCHANGED <<uiVars, selectLog, seqStreak, clickLog, envVars>>

\* Poll of: const checkBoxes = await waitUntil(() => querySelectorAll(checkbox), ...)
\* and, once it resolves, the Selecting step up to await sleep(500).
TickCheckbox ==
  /\ pc = "waitCheckbox"
  /\ UNCHANGED photoCountAfter
  /\ \E now \in Readings(wait) :
     LET w == PollStep(wait, ProbeCheckbox, now) IN
     /\ CASE w.status = "pending" ->
            /\ wait' = w
            /\ UNCHANGED <<pc, lastError, thrownKind, reported, photoCountBefore, totalDeleted,
                           unchecked, checked, selectLog, clickLog, throwsLeft>>
       [] w.status = "rejected" ->
            /\ Catch(w, ErrorValue(w.error))
            /\ UNCHANGED <<photoCountBefore, totalDeleted, unchecked, checked,
                           selectLog, clickLog, throwsLeft>>
       [] w.status = "resolved" ->
            \E throws \in [1..w.result.n -> BOOLEAN] :
              LET n == w.result.n
                  r == ClickAll(throws, [NoSelectLog EXCEPT !.found = n])
                  toggled == r.attempted - r.caught - (IF r.escaped THEN 1 ELSE 0)
                  thrown == Cardinality({i \in 1..n : throws[i]})
              IN  /\ thrown <= throwsLeft
                  /\ throwsLeft' = throwsLeft - thrown
                  /\ variant = "plain" => totalDeleted + n <= MaxTotal
                  /\ photoCountBefore' = n
                  /\ selectLog' = r
                  /\ clickLog' = ClickBoxes(clickLog, r.attempted)
                  /\ unchecked' = unchecked - toggled
                  /\ checked' = checked + toggled
                  /\ IF r.escaped
                     THEN /\ Catch(IdleWait, ErrorValue(ClickMessage))
                          /\ UNCHANGED totalDeleted
                     ELSE /\ pc' = "sleepSelect"
                          /\ wait' = IdleWait
                          /\ totalDeleted' =
                               (IF variant = "plain" THEN CountFound(totalDeleted, n)
                                ELSE totalDeleted)
                          /\ UNCHANGED <<lastError, thrownKind, reported>>
     /\ timers' = TimersAfter(timers, w, wait')
  /\ UNCHANGED <<variant, lastProbe, stallCounter, page, clock, run, previous>>
  /\ UNCHANGED <<container, pending, removed, deleteBtn, dialog, seqStreak>>

\* await sleep(500) ends; executeDeletion() starts its first wait.
SleepSelectDone ==
  /\ pc = "sleepSelect"
  /\ UNCHANGED photoCountAfter
  /\ pc' = "waitDelete"
  /\ wait' = StartWait(DescDelete, timeout)
  /\ seqStreak' = seqStreak + 1
  /\ selectLog' = NoSelectLog
  /\ UNCHANGED <<variant, lastProbe, photoCountBefore, totalDeleted, stallCounter,
                 lastError, thrownKind, reported>>
  /\ timers' = timers + 1
  /\ UNCHANGED <<uiVars, clickLog, envVars>>

\* Whether the click() of a button may throw.
ButtonThrows == IF page = "reliable" THEN {FALSE} ELSE BOOLEAN

\* Poll of the wait for the primary delete control; deleteBtn.click().
TickDelete ==
  /\ pc = "waitDelete"
  /\ UNCHANGED photoCountAfter
  /\ \E now \in Readings(wait) :
     LET w == PollStep(wait, ProbeDelete, now) IN
     /\ CASE w.status = "pending" ->
            /\ wait' = w
            /\ UNCHANGED <<pc, lastError, thrownKind, reported, dialog, clickLog>>
       [] w.status = "rejected" ->
            /\ Catch(w, ErrorValue(w.error))
            /\ UNCHANGED <<dialog, clickLog>>
       [] w.status = "resolved" ->
            \E throws \in ButtonThrows :
              /\ clickLog' = ClickControl(clickLog, "delete")
              /\ IF throws
                 THEN /\ \E e \in ClickThrows : Catch(IdleWait, e)
                      /\ UNCHANGED dialog
                 ELSE /\ dialog' = "requested"
                      /\ pc' = "waitConfirm"
                      /\ wait' = StartWait(DescConfirm, timeout)
                      /\ UNCHANGED <<lastError, thrownKind, reported>>
     /\ timers' = TimersAfter(timers, w, wait')
  /\ UNCHANGED <<variant, lastProbe, photoCountBefore, totalDeleted, stallCounter>>
  /\ UNCHANGED <<container, pending, unchecked, checked, removed, deleteBtn>>
  /\ UNCHANGED <<selectLog, seqStreak, envVars>>

\* What the page does with the selected items when the confirmation
\* control is activated: remove them, leave them selected, deselect them;
\* or the click() throws.
Outcomes ==
  IF page = "reliable" THEN {"removed"}
  ELSE {"removed", "stay", "deselected", "throws"}

\* Poll of the wait for the confirmation control; confirmBtn.click().
TickConfirm ==
  /\ pc = "waitConfirm"
  /\ UNCHANGED photoCountAfter
  /\ \E now \in Readings(wait) :
     LET w == PollStep(wait, ProbeConfirm, now) IN
     /\ CASE w.status = "pending" ->
            /\ wait' = w
            /\ UNCHANGED <<pc, lastError, thrownKind, reported, clickLog>>
            /\ UNCHANGED <<unchecked, checked, removed, deleteBtn, dialog>>
       [] w.status = "rejected" ->
            /\ Catch(w, ErrorValue(w.error))
            /\ UNCHANGED <<unchecked, checked, removed, deleteBtn, dialog, clickLog>>
       [] w.status = "resolved" ->
            \E o \in Outcomes :
              /\ clickLog' = ClickControl(clickLog, "confirm")
              /\ IF o = "throws"
                 THEN /\ \E e \in ClickThrows : Catch(IdleWait, e)
                      /\ UNCHANGED <<unchecked, checked, removed, deleteBtn, dialog>>
                 ELSE /\ pc' = "sleepAction"
                      /\ wait' = IdleWait
                      /\ dialog' = "none"
                      /\ removed' = (IF o = "removed" THEN removed + checked ELSE removed)
                      /\ unchecked' =
                           (IF o = "deselected" THEN unchecked + checked ELSE unchecked)
                      /\ checked' = (IF o = "stay" THEN checked ELSE 0)
                      /\ deleteBtn' = (o = "stay" /\ deleteBtn)
                      /\ UNCHANGED <<lastError, thrownKind, reported>>
     /\ timers' = TimersAfter(timers, w, wait')
  /\ UNCHANGED <<variant, lastProbe, photoCountBefore, totalDeleted, stallCounter>>
  /\ UNCHANGED <<container, pending, selectLog, seqStreak, envVars>>

\* await sleep(CONFIG.actionDelay) ends: part_002 starts the verification
\* re-poll, delete-photos.js starts the next iteration.
SleepActionDone ==
  /\ pc = "sleepAction"
  /\ IF variant = "stall"
     THEN /\ pc' = "waitVerify"
          /\ wait' = StartWait(DescCheckbox, VerifyTimeout)
          /\ photoCountAfter' = 0
          /\ UNCHANGED <<photoCountBefore, selectLog, clickLog>>
     ELSE /\ NextIteration
          /\ UNCHANGED photoCountAfter
  /\ UNCHANGED <<variant, lastProbe, totalDeleted, stallCounter, lastError, thrownKind,
                 reported>>
  /\ timers' = timers + 1
  /\ UNCHANGED <<uiVars, seqStreak, envVars>>

\* Poll of the verification wait (timeout 5000) with its own try/catch, and
\* the comparison of the two counts.
TickVerify ==
  /\ pc = "waitVerify"
  /\ \E now \in Readings(wait) :
     LET w == PollStep(wait, ProbeCheckbox, now) IN
     /\ IF w.status = "pending"
        THEN /\ wait' = w
             /\ UNCHANGED <<pc, photoCountBefore, photoCountAfter, totalDeleted, stallCounter,
                            lastError, thrownKind, reported, selectLog, seqStreak,
                            clickLog>>
        ELSE LET after == IF w.status = "resolved" THEN w.result.n ELSE 0 IN
             /\ photoCountAfter' = after
             /\ IF NotDecreased(after, photoCountBefore)
                THEN /\ stallCounter' = stallCounter + 1
                     /\ UNCHANGED <<totalDeleted, seqStreak>>
                     /\ IF StallReached(stallCounter + 1)
                        THEN /\ Catch(IdleWait, ErrorValue(StallMessage))
                             /\ UNCHANGED <<photoCountBefore, selectLog, clickLog>>
                        ELSE /\ NextIteration
                             /\ UNCHANGED <<lastError, thrownKind, reported>>
                ELSE /\ totalDeleted + NewlyDeleted(photoCountBefore, after) <= MaxTotal
                     /\ stallCounter' = 0
                     /\ totalDeleted' =
                          totalDeleted + NewlyDeleted(photoCountBefore, after)
                     /\ seqStreak' = 0
                     /\ NextIteration
                     /\ UNCHANGED <<lastError, thrownKind, reported>>
     /\ timers' = TimersAfter(timers, w, wait')
  /\ UNCHANGED <<variant, lastProbe>>
  /\ UNCHANGED <<uiVars, envVars>>

(* ------------------------------ the page ------------------------------ *)

\* The photo container is rendered.
ContainerAppears ==
  /\ Running
  /\ ~container
  /\ container' = TRUE
  /\ UNCHANGED <<pending, unchecked, checked, removed, deleteBtn, dialog>>
  /\ UNCHANGED <<progVars, ghostVars, envVars>>

\* The next batch of items becomes visible, unselected.  The batches are
\* successive when each one appears after the items before it are gone.
LoadBatch ==
  /\ Running
  /\ pending # <<>>
  /\ page = "reliable" => unchecked + checked = 0
  /\ unchecked' = unchecked + Head(pending)
  /\ pending' = Tail(pending)
  /\ UNCHANGED <<container, checked, removed, deleteBtn, dialog>>
  /\ UNCHANGED <<progVars, ghostVars, envVars>>

\* The selection toolbar with the "Move to trash" button is rendered.
ShowDeleteButton ==
  /\ Running
  /\ checked > 0
  /\ ~deleteBtn
  /\ deleteBtn' = TRUE
  /\ UNCHANGED <<container, pending, unchecked, checked, removed, dialog>>
  /\ UNCHANGED <<progVars, ghostVars, envVars>>

\* The confirmation dialog with its "Move to trash" button is rendered.
ShowConfirmDialog ==
  /\ Running
  /\ dialog = "requested"
  /\ dialog' = "open"
  /\ UNCHANGED <<container, pending, unchecked, checked, removed, deleteBtn>>
  /\ UNCHANGED <<progVars, ghostVars, envVars>>

(* --------------------------- specifications --------------------------- *)

PageModes == {"reliable", "any"}

InitRun(vs, modes, plans) ==
  /\ variant \in vs
  /\ page \in modes
  /\ clock = NotFollowed
  /\ pc = "waitContainer"
  /\ wait = StartWait(DescContainer, timeout)
  /\ lastProbe = NoValue
  /\ photoCountBefore = 0
  /\ photoCountAfter = 0
  /\ totalDeleted = 0
  /\ stallCounter = 0
  /\ lastError = <<>>
  /\ thrownKind = "none"
  /\ reported = -1
  /\ container \in BOOLEAN
  /\ pending \in plans
  /\ unchecked = 0
  /\ checked = 0
  /\ removed = 0
  /\ deleteBtn = FALSE
  /\ dialog = "none"
  /\ selectLog = NoSelectLog
  /\ seqStreak = 0
  /\ clickLog = <<>>
  /\ timers = 1
  /\ throwsLeft = (IF page = "reliable" THEN 0 ELSE MaxThrows)
  /\ run = 1
  /\ previous = FALSE

Init == InitRun(Variants, PageModes, BatchPlans)

ScriptStep ==
  \/ TickContainer
  \/ TickCheckbox
  \/ SleepSelectDone
  \/ TickDelete
  \/ TickConfirm
  \/ SleepActionDone
  \/ TickVerify

PageStep ==
  \/ ContainerAppears
  \/ LoadBatch
  \/ ShowDeleteButton
  \/ ShowConfirmDialog

Next == ScriptStep \/ PageStep

Spec == Init /\ [][Next]_vars

\* The event loop runs every due timer callback: the script's steps are
\* weakly fair.  Only the variant with stall detection is meant to stop.
FairSpec == InitRun({"stall"}, {"any"}, BatchPlans) /\ [][Next]_vars /\ WF_vars(ScriptStep)

(* ------------------------- running it again --------------------------- *)

\* After "[SCRIPT HALTED]" or "CRITICAL ERROR" the user refreshes the page
\* (the selection, the toolbar and the dialog are gone) and runs the script
\* again: a new call of the async function and of runPhotoDeleter.
Reinvoke ==
  /\ pc \in {"halted", "crashed"}
  /\ run < MaxRuns
  /\ run' = run + 1
  /\ previous' = (previous \/ Telling(Counters(totalDeleted, stallCounter)))
  /\ LET c == CountersAtStart(Counters(totalDeleted, stallCounter)) IN
       /\ totalDeleted' = c.totalDeleted
       /\ stallCounter' = c.stallCounter
  /\ NextIteration
  /\ photoCountAfter' = 0
  /\ lastError' = <<>>
  /\ thrownKind' = "none"
  /\ reported' = -1
  /\ seqStreak' = 0
  /\ unchecked' = unchecked + checked
  /\ checked' = 0
  /\ deleteBtn' = FALSE
  /\ dialog' = "none"
  /\ timers' = timers + 1
  /\ UNCHANGED <<variant, lastProbe, container, pending, removed, page, clock, throwsLeft>>

NextRerun == Next \/ Reinvoke

\* The runs that follow one another are followed on a page that shows all
\* its items at once.
RerunPlans == {s \in BatchPlans : Len(s) <= 1}

SpecRerun == InitRun({"stall"}, {"any"}, RerunPlans) /\ [][NextRerun]_vars

(* ---------------------- the polling primitive alone -------------------- *)

\* The timeouts the script passes to waitUntil.
ScriptTimeouts == {timeout, VerifyTimeout}

FollowedTimeouts == {k * TimeoutStep : k \in 0..MaxTimeoutSteps}
TestTimeouts ==
  {k * TimeoutStep : k \in 0..(2 * MaxTimeoutSteps)} \cup ScriptTimeouts

\* What a probe may return: null, undefined, false, true, 0, 7, "", "abc",
\* an empty and a two-element list, an element, a plain object.
ProbeValues ==
  {Null, Undefined, Val("bool", 0), Val("bool", 1), Val("number", 0),
   Val("number", 7), Val("string", 0), Val("string", 3), NodeList(0),
   NodeList(2), Element, Val("object", 0)}

InitWait ==
  /\ variant = "stall"
  /\ pc = "primitive"
  /\ \E d \in {DescContainer, DescCheckbox}, t \in TestTimeouts :
       /\ wait = StartWait(d, t)
       /\ clock \in (IF t \in FollowedTimeouts /\ d = DescCheckbox
                     THEN {0, NotFollowed} ELSE {NotFollowed})
  /\ lastProbe = NoValue
  /\ photoCountBefore = 0
  /\ photoCountAfter = 0
  /\ totalDeleted = 0
  /\ stallCounter = 0
  /\ lastError = <<>>
  /\ thrownKind = "none"
  /\ reported = -1
  /\ container = FALSE
  /\ pending = <<>>
  /\ unchecked = 0
  /\ checked = 0
  /\ removed = 0
  /\ deleteBtn = FALSE
  /\ dialog = "none"
  /\ selectLog = NoSelectLog
  /\ seqStreak = 0
  /\ clickLog = <<>>
  /\ timers = 1
  /\ page = "any"
  /\ throwsLeft = 0
  /\ run = 1
  /\ previous = FALSE

\* What condition() returns in a callback that reads now; it is not called
\* once the timeout has passed.
Returned(w, now) == IF TimedOut(now, w.timeout) THEN {NoValue} ELSE ProbeValues

\* One callback of the interval timer of a waitUntil call made on its own;
\* the probe is called only when the timeout check passed.
PrimitivePoll ==
  /\ pc = "primitive"
  /\ UNCHANGED photoCountAfter
  /\ wait.timer
  /\ \E now \in Readings(wait) :
     \E v \in Returned(wait, now) :
       /\ wait' = PollStep(wait, v, now)
       /\ clock' = (IF clock = NotFollowed THEN clock ELSE now)
       /\ lastProbe' = (IF wait'.probes > wait.probes THEN v ELSE lastProbe)
       /\ timers' = TimersAfter(timers, wait', wait')
  /\ UNCHANGED <<variant, pc, photoCountBefore, totalDeleted, stallCounter,
                 lastError, thrownKind, reported>>
  /\ UNCHANGED <<uiVars, selectLog, seqStreak, clickLog>>
  /\ UNCHANGED <<page, throwsLeft, run, previous>>

NextWait == PrimitivePoll

SpecWait == InitWait /\ [][NextWait]_vars

\* A library that shows one more item each time the one before is gone:
\* stallLimit + 1 items, one per batch, on a page where every delete-confirm
\* sequence removes its selection.
RefillPlan == [i \in 1..(stallLimit + 1) |-> 1]

SpecRefill == InitRun({"stall"}, {"reliable"}, {RefillPlan}) /\ [][Next]_vars

\* The loop and the primitive on its own, together.
InitPolling == Init \/ (InitWait /\ clock = NotFollowed)

NextPolling == Next \/ NextWait

SpecPolling == InitPolling /\ [][NextPolling]_vars

(* ------------------------------- claims -------------------------------- *)

NoItemsTimeout == TimeoutMessage(DescCheckbox, timeout)

\* C1: stall-detection variant: when the run has ended on a UI whose N items
\* became visible in successive batches (each after the one before it was
\* deleted), where every activation works and every delete-confirm sequence
\* removes the selected items, the reported total is N.
C1_ReportedTotalIsN ==
  (/\ variant = "stall"
   /\ page = "reliable"
   /\ pc \in Terminal
   /\ pending = <<>>
   /\ unchecked = 0
   /\ checked = 0)
  => reported = ItemCount

\* C2: stall-detection variant: stallCounter never exceeds stallLimit, the
\* loop is halted with the stall error exactly when stallCounter reaches
\* stallLimit, and never more than stallLimit delete-confirm sequences are
\* started without a decrease between them.
C2_StallLimit ==
  variant = "stall" =>
    /\ stallCounter <= stallLimit
    /\ seqStreak <= stallLimit
    /\ stallCounter = stallLimit => (pc = "halted" /\ lastError = StallMessage)
    /\ lastError = StallMessage =>
         (pc = "halted" /\ stallCounter = stallLimit /\ seqStreak = stallLimit)

C2_Witness ==
  /\ variant = "stall"
  /\ pc = "halted"
  /\ lastError = StallMessage
  /\ stallCounter = stallLimit
  /\ seqStreak = stallLimit

\* No item was ever visible during the run.
NoItemEver == unchecked + checked + removed = 0

\* C3 (as claimed): stall-detection variant: a run on a UI where no
\* selectable control ever appears ends in Done with total 0.
C3_EmptyEndsDone ==
  (variant = "stall" /\ pc \in Terminal /\ NoItemEver)
  => (pc = "done" /\ reported = 0)

\* C3 (amended): stall-detection variant: a run on a UI where no selectable
\* control ever appears reports total 0; it ends in Done when the photo
\* container was found (the wait for selectable controls is the one that
\* times out) and in Halted-On-Error when the wait for the photo container
\* times out.
C3_EmptyEndsDoneIfContainer ==
  (variant = "stall" /\ pc \in Terminal /\ NoItemEver)
  => /\ reported = 0
     /\ wait.status = "rejected"
     /\ wait.description \in {DescContainer, DescCheckbox}
     /\ wait.description = DescCheckbox => (pc = "done" /\ container)
     /\ wait.description = DescContainer => pc = "halted"
     /\ ~container => pc = "halted"

C3_Witness ==
  /\ variant = "stall"
  /\ pc = "done"
  /\ NoItemEver
  /\ container
  /\ reported = 0
  /\ wait.status = "rejected"

\* A timeout of the polling primitive reached the outer catch.
TimeoutReachedLoop == pc \in Terminal /\ wait.status = "rejected"

\* C4 (as claimed): every timeout that reaches the outer loop ends the run
\* in Done.
C4_TimeoutsEndDone == TimeoutReachedLoop => pc = "done"

\* C4 (amended): a timeout waiting for selectable controls ends the run in
\* Done in both variants; a timeout waiting for the container, the primary
\* delete control or the confirmation control ends the run in
\* Halted-On-Error in the stall-detection variant and in Done in the variant
\* without stall detection.
C4_OnlyNoItemsTimeoutEndsDone ==
  TimeoutReachedLoop =>
    /\ lastError = wait.error
    /\ pc = "done" <=> (variant = "plain" \/ wait.description = DescCheckbox)

C4_Witness ==
  /\ variant = "stall"
  /\ pc = "halted"
  /\ wait.status = "rejected"
  /\ wait.description = DescDelete
  /\ checked > 0

\* An error that is no timeout of the polling primitive (the stall-limit
\* error, a value thrown by a control) has reached the outer catch.
OtherErrorReachedLoop ==
  pc \in Ended /\ thrownKind # "none" /\ wait.status # "rejected"

\* C5: an error that is no timeout of the polling primitive and reaches the
\* outer catch halts the loop in Halted-On-Error with the current total
\* reported.
C5_OtherErrorsHalt ==
  OtherErrorReachedLoop => (pc = "halted" /\ reported = totalDeleted)

\* C6: when the probe returned a truthy result (for a string or a list: a
\* non-empty one), waitUntil resolved with that result on that poll.
ClaimedSatisfying(v) ==
  Truthy(v) /\ ~(v.kind \in {"string", "list"} /\ v.n = 0)

C6_TruthyResolves ==
  (pc = "primitive" /\ lastProbe # NoValue /\ ClaimedSatisfying(lastProbe))
  => (wait.status = "resolved" /\ wait.result = lastProbe)

\* The wait made on its own whose time is followed to the ms.
TimedWait == pc = "primitive" /\ clock # NotFollowed

\* C7 (as claimed): waitUntil does not stay pending once the timeout has
\* elapsed, and it rejects at an elapsed time between timeout and timeout +
\* one poll interval, with the timeout message for its description.
C7_RejectWindow ==
  TimedWait =>
    /\ wait.status = "pending" => clock <= wait.timeout
    /\ wait.status = "rejected" =>
         /\ wait.timeout <= clock
         /\ clock <= wait.timeout + PollInterval
         /\ wait.error = TimeoutMessage(wait.description, wait.timeout)

\* A callback of the interval timer of the primitive has run, and the one
\* that rejects the wait.
PrimitiveCallback == pc = "primitive" /\ wait.status = "pending" /\ wait' # wait
PrimitiveRejects == PrimitiveCallback /\ wait'.status = "rejected"

\* C7 (amended): while the probe does not satisfy the condition, waitUntil
\* keeps its timer and rejects in the first callback that runs more than
\* timeout ms after the call, with the timeout message for its description:
\* never before the timeout has elapsed, and never later than the first
\* callback after it.  Every call of the probe, and a resolution, is made
\* within the timeout; the rejecting callback does not call the probe.  The
\* rejection is within timeout + one poll interval when that callback runs
\* no later than one poll interval after the one before it.
C7_RejectAfterTimeout ==
  /\ [](pc = "primitive" =>
         /\ wait.status = "pending" => (wait.timer /\ ~wait.overdue)
         /\ wait.status = "resolved" => ~wait.overdue
         /\ wait.status = "rejected" =>
              /\ wait.overdue
              /\ wait.error = TimeoutMessage(wait.description, wait.timeout))
  /\ [](TimedWait =>
         /\ wait.status \in {"pending", "resolved"} => clock <= wait.timeout
         /\ wait.status = "rejected" => wait.timeout < clock)
  /\ [][PrimitiveCallback =>
         /\ wait'.probes > wait.probes => ~wait'.overdue
         /\ wait'.overdue => wait'.status = "rejected"
         /\ wait'.status = "rejected" => wait'.probes = wait.probes]_vars
  /\ [][(PrimitiveCallback /\ TimedWait) =>
         /\ clock < clock'
         /\ wait'.probes > wait.probes => clock' <= wait.timeout
         /\ clock' > wait.timeout => wait'.status = "rejected"]_vars
  /\ [][(PrimitiveRejects /\ TimedWait) =>
         (clock' - clock <= PollInterval => clock' <= wait.timeout + PollInterval)]_vars

C7_Witness ==
  /\ TimedWait
  /\ wait.status = "rejected"
  /\ wait.timeout > PollInterval
  /\ clock > wait.timeout + PollInterval
  /\ wait.probes > 0
  /\ wait.result = NoValue

\* C8: after a Selecting step in which a click on a found control threw,
\* every control of the batch was still activated, the error did not reach
\* the outer catch, the loop has not ended, and the delete-confirm sequence
\* of that iteration is the next thing to run.
C8_ThrowDoesNotAbortBatch ==
  (selectLog.caught > 0 \/ selectLog.escaped) =>
    /\ selectLog.attempted = selectLog.found
    /\ ~selectLog.escaped
    /\ pc = "sleepSelect"
    /\ ENABLED SleepSelectDone

C8_Witness ==
  /\ selectLog.found >= 2
  /\ selectLog.caught = 1
  /\ selectLog.attempted = selectLog.found
  /\ checked = selectLog.found - 1
  /\ unchecked = 1
  /\ pc = "sleepSelect"

\* C9: stall-detection variant: every run reaches Done or Halted-On-Error,
\* whatever the page does with the selected items on each confirmation.
C9_Terminates == <>(pc \in Terminal)

C9_Witness ==
  /\ variant = "stall"
  /\ pc = "halted"
  /\ lastError = StallMessage
  /\ removed > 0
  /\ unchecked > 0
  /\ totalDeleted > 0

\* C10: variant without stall detection: when the loop has logged "Mission
\* accomplished" and exited, the wait for selectable photos had timed out and
\* no selectable photo is on the page.
C10_ExitOnlyWhenEmpty ==
  (variant = "plain" /\ pc = "done")
  => (lastError = NoItemsTimeout /\ unchecked = 0)

\* The clicks of one iteration: those on selectable controls first, then at
\* most one on the primary delete control, then at most one on the
\* confirmation control.
Ordered(log) ==
  \E k \in 0..Len(log) :
    /\ \A i \in 1..k : log[i] = "box"
    /\ SubSeq(log, k + 1, Len(log)) \in {<<>>, <<"delete">>, <<"delete", "confirm">>}

HasClick(log, control) == \E i \in 1..Len(log) : log[i] = control

BoxCount(log) == Cardinality({i \in 1..Len(log) : log[i] = "box"})

SequenceTimedOut(description) ==
  pc \in Terminal /\ wait.status = "rejected" /\ wait.description = description

\* C11: in every iteration the primary delete control is activated only
\* after all found selectable controls were activated, the confirmation
\* control only after the primary delete control; the waits of the sequence
\* do not outlast the timeout, and when the delete control (the confirmation
\* control) did not appear within the timeout the sequence has failed with
\* the timeout error and neither control (not the confirmation control) was
\* activated.
C11_OrderedSequence ==
  /\ Ordered(clickLog)
  /\ HasClick(clickLog, "delete") =>
       (photoCountBefore > 0 /\ BoxCount(clickLog) = photoCountBefore)
  /\ pc \in {"waitDelete", "waitConfirm"} =>
       /\ wait.status = "pending"
       /\ ~wait.overdue
       /\ wait.probes * (PollInterval - Early) <= wait.timeout
  /\ SequenceTimedOut(DescDelete) =>
       /\ ~HasClick(clickLog, "delete")
       /\ ~HasClick(clickLog, "confirm")
       /\ lastError = TimeoutMessage(DescDelete, timeout)
  /\ SequenceTimedOut(DescConfirm) =>
       /\ HasClick(clickLog, "delete")
       /\ ~HasClick(clickLog, "confirm")
       /\ lastError = TimeoutMessage(DescConfirm, timeout)

C11_Witness ==
  /\ SequenceTimedOut(DescConfirm)
  /\ clickLog = <<"box", "box", "delete">>
  /\ dialog = "requested"

\* C12: a run of the script started after a run that ended in
\* Halted-On-Error begins with totalDeleted = 0 and stallCounter = 0 and at
\* the first wait of the loop, whatever the counters of the earlier run
\* were; in the later run the stall counter counts only delete-confirm
\* sequences of that run, and the stall halt needs stallLimit of them.
C12_FreshRunState ==
  /\ [][run' # run =>
         /\ totalDeleted' = 0
         /\ stallCounter' = 0
         /\ pc' = "waitContainer"
         /\ wait' = StartWait(DescContainer, timeout)
         /\ reported' = -1]_vars
  /\ [](/\ stallCounter <= seqStreak
        /\ lastError = StallMessage => seqStreak = stallLimit
        /\ reported >= 0 => reported = totalDeleted)

C12_Witness ==
  /\ run = 2
  /\ previous
  /\ pc = "halted"
  /\ lastError = StallMessage
  /\ reported = 0

\* No click() on a selectable control has thrown in this run.
NoClickThrew == throwsLeft = (IF page = "reliable" THEN 0 ELSE MaxThrows)

\* C13: stall-detection variant, every found control having been activated:
\* the total never exceeds the number of items the page has actually removed
\* (a verification re-poll that finds no selectable control means the
\* selected items are gone), also when a failed deletion leaves the items
\* selected.
C13_TotalWithinRemoved ==
  (variant = "stall" /\ NoClickThrew) =>
    /\ totalDeleted <= removed
    /\ reported >= 0 => reported <= removed

\* What the verification re-poll can yield on the poll that is due: the
\* number of selectable controls, or 0 when its 5 s have passed by then.
PostActionCounts ==
  {IF now > VerifyTimeout THEN 0 ELSE unchecked : now \in Readings(wait)}

\* The Verifying step of the stall-detection variant comes to its result.
VerifyEnds == variant = "stall" /\ pc = "waitVerify" /\ pc' # "waitVerify"

\* C14: stall-detection variant: a Verifying step whose post-action count is
\* lower than the pre-action count sets stallCounter to 0 and adds exactly
\* (count before - count after) to totalDeleted; totalDeleted is never
\* negative and never decreases; at a stall halt stallLimit delete-confirm
\* sequences have run since the last decrease.
C14_DecreaseAccounting ==
  /\ [][VerifyEnds =>
         /\ photoCountAfter' \in PostActionCounts
         /\ IF photoCountAfter' < photoCountBefore
            THEN /\ stallCounter' = 0
                 /\ totalDeleted' = totalDeleted + (photoCountBefore - photoCountAfter')
            ELSE /\ stallCounter' = stallCounter + 1
                 /\ totalDeleted' = totalDeleted]_vars
  /\ [][variant = "stall" => totalDeleted' >= totalDeleted]_vars
  /\ [](variant = "stall" =>
          /\ totalDeleted >= 0
          /\ lastError = StallMessage =>
               (stallCounter = stallLimit /\ seqStreak = stallLimit))

C14_Witness ==
  /\ variant = "stall"
  /\ pc = "waitContainer"
  /\ totalDeleted = 1
  /\ removed = 1
  /\ unchecked = 1
  /\ throwsLeft = 0
  /\ page = "any"
  /\ stallCounter = 0
  /\ seqStreak = 0

Settled(w) == w.status \in {"resolved", "rejected"}

\* C15: at most one interval timer is set at any moment, and it is the timer
\* of the one pending wait; a wait is started only when no timer is set; a
\* settled wait keeps its outcome, and its probe is not called again.
C15_SequentialPolling ==
  /\ [](/\ timers \in {0, 1}
        /\ timers = 1 <=> wait.timer
        /\ wait.timer <=> wait.status = "pending"
        /\ pc \in {"waitContainer", "waitCheckbox", "waitDelete", "waitConfirm",
                   "waitVerify"} <=> (Running /\ wait.status = "pending"))
  /\ [][Settled(wait) =>
         \/ wait' = wait
         \/ wait' = StartWait(wait'.description, wait'.timeout)]_vars
  /\ [][wait'.probes > wait.probes =>
         (wait.status = "pending" /\ wait'.probes = wait.probes + 1)]_vars

C15_Witness ==
  /\ pc = "primitive"
  /\ wait.status = "resolved"
  /\ wait.probes > 1
  /\ timers = 0

\* C16: stall-detection variant: a run in which every delete-confirm
\* sequence removes its selected items is never halted with "Stall
\* Detected", also when freshly loaded items keep the visible count from
\* decreasing.
C16_NoStallWhenDeleting ==
  (variant = "stall" /\ page = "reliable") => lastError # StallMessage

\* The Selecting step of an iteration has run to its end.
SelectingDone == pc = "waitCheckbox" /\ pc' = "sleepSelect"

\* C17: variant without stall detection: the Selecting step adds the number
\* of selectable controls it found to the total, before the delete-confirm
\* sequence runs; nothing else changes the total, so an iteration whose
\* sequence times out or removes nothing has contributed its full count to
\* the reported total.
C17_SumOfFoundCounts ==
  /\ [][(variant = "plain" /\ SelectingDone) =>
         (totalDeleted' = totalDeleted + unchecked /\ unchecked > 0)]_vars
  /\ [][(variant = "plain" /\ ~SelectingDone) => totalDeleted' = totalDeleted]_vars
  /\ [](variant = "plain" =>
          /\ pc \in Terminal => reported = totalDeleted
          /\ pc \in {"sleepSelect", "waitDelete", "waitConfirm"} =>
               totalDeleted >= photoCountBefore
          /\ (SequenceTimedOut(DescDelete) \/ SequenceTimedOut(DescConfirm)) =>
               (photoCountBefore > 0 /\ reported >= photoCountBefore))

C17_Witness ==
  /\ variant = "plain"
  /\ SequenceTimedOut(DescConfirm)
  /\ photoCountBefore = 2
  /\ reported = 2
  /\ removed = 0

\* C18: stall-detection variant: totalDeleted changes only in a Verifying
\* step whose post-action count is lower than the pre-action count; a
\* Verifying step that counts a stall, and a step that ends the loop
\* (timeout, stall limit, other error), leave it as it was, and the total
\* reported is that value.
C18_TotalFrame ==
  [][variant = "stall" =>
       /\ totalDeleted' # totalDeleted =>
            /\ VerifyEnds
            /\ photoCountAfter' < photoCountBefore
            /\ stallCounter' = 0
            /\ pc' \notin Ended
       /\ (VerifyEnds /\ photoCountAfter' >= photoCountBefore) =>
            (totalDeleted' = totalDeleted /\ stallCounter' = stallCounter + 1)
       /\ (VerifyEnds /\ stallCounter' = stallCounter + 1) =>
            totalDeleted' = totalDeleted
       /\ (pc \notin Ended /\ pc' \in Ended) =>
            /\ totalDeleted' = totalDeleted
            /\ pc' \in Terminal => reported' = totalDeleted]_vars

C18_Witness ==
  /\ variant = "stall"
  /\ SequenceTimedOut(DescDelete)
  /\ stallCounter = 1
  /\ totalDeleted = 1
  /\ reported = 1

\* C19: once an error has reached the outer catch the loop has ended, and
\* the total is logged in Done and Halted-On-Error only; in these states no
\* interval timer is set and no wait is pending, and the script takes no
\* further step: no click(), no new wait, no change of its counters.
C19_TerminalStatesAreFinal ==
  /\ [](/\ thrownKind # "none" => pc \in Ended
        /\ reported >= 0 => pc \in Terminal
        /\ pc \in Ended =>
             (timers = 0 /\ ~wait.timer /\ wait.status # "pending")
        /\ pc \in Terminal => reported >= 0)
  /\ [][(pc \in Ended) =>
         UNCHANGED <<pc, wait, clickLog, timers, totalDeleted, stallCounter,
                     reported>>]_vars

C19_Witness ==
  /\ pc = "halted"
  /\ lastError = StallMessage
  /\ unchecked > 0
  /\ clickLog = <<"box", "delete", "confirm">>
  /\ timers = 0

====
